---- MODULE Spec2Model ----
(***************************************************************************)
(* CME-to-Kalshi basis trading: the probability model (CMEClient), the      *)
(* signal engine (CMEArbitrageStrategy.update) and the replay               *)
(* (CMEArbitrageStrategy.run_backtest).                                     *)
(*                                                                          *)
(* Number representation.  The program computes in binary floating point;   *)
(* the model computes the same expressions exactly, over integers:          *)
(*   - futures prices and rates are in hundredths (96.36 is 9636, the       *)
(*     25 bps step 0.25 is 25);                                             *)
(*   - probabilities are in percent (0.56 is 56);                           *)
(*   - money (fair value, basis, threshold, fees, P&L) is in tenths of a    *)
(*     cent (4.5 cents is 45); quotes are whole cents, as in the program;   *)
(*   - a confidence is in hundredths (0.5 is 50).                           *)
(* An Optional value is a sequence of length at most one: <<>> is None,     *)
(* <<v>> is v.  A NaN cell of a DataFrame is <<>> as well.                  *)
(***************************************************************************)
EXTENDS Integers, Sequences, FiniteSets, TLC

VARIABLES
    csv,        \* rows of the CME price file, in file order
    data,       \* CMEClient.data
    hike_size,  \* CMEClient.hike_size
    strategy,   \* the CMEArbitrageStrategy object
    backtester, \* the Backtester object
    kalshi,     \* the activation of KalshiClient.get_trades
    trader,     \* the LiveTrader object
    call,       \* the operation that ran last, with its arguments
    ret         \* what that operation returned

vars == <<csv, data, hike_size, strategy, backtester, kalshi, trader, call, ret>>

----------------------------------------------------------------------------
(* Bounds of the model *)

MaxDate == 2
MaxRows == 2

Dates == 1..MaxDate

\* Futures prices: 96.36, 99.76, 99.60, 100.10 (above 100) and 50.00.
PriceValues == {9636, 9976, 9960, 10010, 5000}
\* Step sizes a caller gives the client: 0.10, 0.25, 0.50.  Each divides 1.00,
\* so a probability in percent is computed exactly.
HikeSizes == {10, 25, 50}
EffrValues == {533, 358}
TargetRates == {<<>>, <<558>>}

----------------------------------------------------------------------------
(* Helpers *)

None == <<>>
Some(v) == <<v>>

NoCall == [op |-> "none"]
NoReturn == [kind |-> "none"]

Min(a, b) == IF a <= b THEN a ELSE b
Max(a, b) == IF a >= b THEN a ELSE b

\* numpy/pandas clip(lo, hi)
ClipIdentity(x, lo, hi) == x
Clip(x, lo, hi) == Max(lo, Min(x, hi))

SeqsUpTo(S, n) == UNION {[1..k -> S] : k \in 0..n}

----------------------------------------------------------------------------
(* CMEClient *)

DefaultHikeSize == 25
BaseRateStep == 25

PriceRows == [Date : Dates, Price : PriceValues]
CsvFiles == SeqsUpTo(PriceRows, MaxRows)

IsSortedByDate(rows) ==
    \A i \in 1..Len(rows), j \in 1..Len(rows) : i < j => rows[i].Date <= rows[j].Date

\* df.sort_values('Date'): the rows in ascending date order.  The default sort
\* is not stable, so rows of one date come in any order.
SortValues(rows) ==
    { s \in { [i \in 1..Len(rows) |-> rows[p[i]]] : p \in Permutations(1..Len(rows)) } :
        IsSortedByDate(s) }

NoData == [loaded |-> FALSE, rows |-> <<>>, calc |-> FALSE, cols |-> <<>>]
Loaded(rows) == [loaded |-> TRUE, rows |-> rows, calc |-> FALSE, cols |-> <<>>]

\* self.data['implied_rate'] = 100 - self.data['Price']
ImpliedRate(price) == 10000 - price

\* self.data['base_rate_est'] = (self.data['implied_rate'] // 0.25) * 0.25
BaseRateEstNearest(implied_rate) ==
    ((2 * implied_rate + BaseRateStep) \div (2 * BaseRateStep)) * BaseRateStep
BaseRateEst(implied_rate) == (implied_rate \div BaseRateStep) * BaseRateStep

\* (implied_rate - base_rate_est) / self.hike_size, in percent
RawHikeProb(implied_rate, base_rate_est, h) ==
    ((implied_rate - base_rate_est) * 100) \div h

\* One row of calculate_probabilities: the three columns it adds.
HikeProbRow(price, h) ==
    LET r == ImpliedRate(price)
        b == BaseRateEst(r)
    IN  [implied_rate |-> r,
         base_rate_est |-> b,
         hike_prob |-> Clip(RawHikeProb(r, b, h), 0, 100)]

\* CMEClient.load_data
LoadData ==
    /\ call = NoCall
    /\ \E rows \in SortValues(csv) :
         /\ data' = Loaded(rows)
         /\ ret' = [kind |-> "DataFrame", rows |-> rows]
    /\ call' = [op |-> "load_data"]
    /\ UNCHANGED <<csv, hike_size, strategy, backtester, kalshi, trader>>

\* client.hike_size = h: the attribute is the client's only step-size setting.
SetHikeSize ==
    /\ call = NoCall
    /\ \E h \in HikeSizes \ {hike_size} : hike_size' = h
    /\ UNCHANGED <<csv, data, strategy, backtester, kalshi, trader, call, ret>>

\* CMEClient.calculate_probabilities(current_effr, target_rate)
CalculateProbabilitiesFromTarget ==
    /\ call = NoCall
    /\ \E current_effr \in EffrValues, target_rate \in TargetRates,
          rows \in (IF data.loaded THEN {data.rows} ELSE SortValues(csv)) :
         LET target == IF target_rate = None THEN current_effr + hike_size
                                             ELSE target_rate[1]
             cols == [i \in 1..Len(rows) |->
                        [HikeProbRow(rows[i].Price, hike_size) EXCEPT
                            !.base_rate_est = target - hike_size,
                            !.hike_prob = Clip(RawHikeProb(ImpliedRate(rows[i].Price),
                                                           target - hike_size,
                                                           hike_size), 0, 100)]]
         IN  /\ data' = [loaded |-> TRUE, rows |-> rows, calc |-> TRUE, cols |-> cols]
             /\ call' = [op |-> "calculate_probabilities",
                         current_effr |-> current_effr,
                         target_rate |-> target_rate]
             /\ ret' = [kind |-> "Series",
                        rows |-> [i \in 1..Len(rows) |->
                                    [Date |-> rows[i].Date,
                                     hike_prob |-> cols[i].hike_prob]]]
    /\ UNCHANGED <<csv, hike_size, strategy, backtester, kalshi, trader>>
CalculateProbabilities ==
    /\ call = NoCall
    /\ \E current_effr \in EffrValues, target_rate \in TargetRates,
          rows \in (IF data.loaded THEN {data.rows} ELSE SortValues(csv)) :
         LET cols == [i \in 1..Len(rows) |-> HikeProbRow(rows[i].Price, hike_size)]
         IN  /\ data' = [loaded |-> TRUE, rows |-> rows, calc |-> TRUE, cols |-> cols]
             /\ call' = [op |-> "calculate_probabilities",
                         current_effr |-> current_effr,
                         target_rate |-> target_rate]
             /\ ret' = [kind |-> "Series",
                        rows |-> [i \in 1..Len(rows) |->
                                    [Date |-> rows[i].Date,
                                     hike_prob |-> cols[i].hike_prob]]]
    /\ UNCHANGED <<csv, hike_size, strategy, backtester, kalshi, trader>>

\* The caller takes the result; the object is ready for the next call.
Return ==
    /\ call # NoCall
    /\ call' = NoCall
    /\ ret' = NoReturn
    /\ UNCHANGED <<csv, data, hike_size, strategy, backtester, kalshi, trader>>

----------------------------------------------------------------------------
(* CMEArbitrageStrategy *)

\* Quote prices in cents, probabilities in percent, money in tenths of a cent.
QuotePrices == {40, 50, 53, 60}
ProbValues == {0, 45, 56}
ThresholdValues == {-50, 0, 45}
FeeValues == {0, 20}
FairValueArgs == {0, 450, 500, 560, 1000}

\* A pandas Series or DataFrame indexed by date: a function on its index.
SeriesOver(V) == UNION {[D -> V] : D \in SUBSET Dates}
Quotes == [yes_bid : QuotePrices, yes_ask : QuotePrices]

NoStrategy == [constructed |-> FALSE]
NoBacktester == [constructed |-> FALSE]
NoGetTrades == [pc |-> "idle"]
NoTrader == [constructed |-> FALSE]

\* The dataclass constructor: it stores its arguments as they are.
Construct ==
    /\ call = NoCall
    /\ ~strategy.constructed
    /\ \E cme_probs \in SeriesOver(ProbValues),
          entry_threshold \in ThresholdValues,
          fees_round_trip \in FeeValues :
         strategy' = [constructed |-> TRUE,
                      cme_probs |-> cme_probs,
                      entry_threshold |-> entry_threshold,
                      fees_round_trip |-> fees_round_trip]
    /\ UNCHANGED <<csv, data, hike_size, backtester, kalshi, trader, call, ret>>

\* Cents to tenths of a cent
Tenths(cents) == cents * 10

\* CMEArbitrageStrategy.calculate_basis
CalculateBasisSwapped(kalshi_bid, kalshi_ask, fair_value_cents) ==
    [basis_long |-> fair_value_cents - Tenths(kalshi_bid),
     basis_short |-> Tenths(kalshi_ask) - fair_value_cents]
CalculateBasis(kalshi_bid, kalshi_ask, fair_value_cents) ==
    [basis_long |-> fair_value_cents - Tenths(kalshi_ask),
     basis_short |-> Tenths(kalshi_bid) - fair_value_cents]

\* min(basis / 10.0, 1.0), in hundredths
Confidence(basis) == Min(basis, 100)

\* self.cme_probs.iloc[-1]
LastDate(series) == CHOOSE d \in DOMAIN series : \A e \in DOMAIN series : e <= d

Distance(a, b) == IF a >= b THEN a - b ELSE b - a

\* index.get_indexer([date], method='nearest') on an ascending index: the
\* closest date, the later one of two equally close
NearestDate(series, date) ==
    CHOOSE d \in DOMAIN series :
        \A e \in DOMAIN series :
            \/ Distance(d, date) < Distance(e, date)
            \/ (Distance(d, date) = Distance(e, date) /\ e <= d)

\* strategy.py 80-97: the fair value update works with, None when it returns
\* a hold before computing one
FairValueLookup(cme_probs, date, fair_value_cents) ==
    IF fair_value_cents # None THEN fair_value_cents
    ELSE IF date = None
         THEN IF DOMAIN cme_probs = {} THEN None
              ELSE Some(cme_probs[LastDate(cme_probs)] * 10)
         ELSE IF date[1] \in DOMAIN cme_probs
              THEN Some(cme_probs[date[1]] * 10)
              ELSE IF DOMAIN cme_probs = {} THEN None
                   ELSE Some(cme_probs[NearestDate(cme_probs, date[1])] * 10)

SignalDefaultReason(action, side, confidence, reason, shows) ==
    [kind |-> "Signal", action |-> action, side |-> side,
     confidence |-> confidence, reason |-> "", shows |-> {}]
Signal(action, side, confidence, reason, shows) ==
    [kind |-> "Signal", action |-> action, side |-> side,
     confidence |-> confidence, reason |-> reason, shows |-> shows]

\* strategy.py 99-121.  The action None is "hold"; shows lists the quantities
\* the reason string prints.
GenerateSignalLongTwice(kalshi_bid, kalshi_ask, fair_value_cents, entry_threshold) ==
    LET basis == CalculateBasis(kalshi_bid, kalshi_ask, fair_value_cents)
    IN  IF basis.basis_long > entry_threshold
        THEN Signal("buy", "yes", Confidence(basis.basis_long), "Long edge",
                    {"basis_long", "fair_value", "ask"})
        ELSE IF basis.basis_long > entry_threshold
        THEN Signal("sell", "yes", Confidence(basis.basis_short), "Short edge",
                    {"basis_short", "fair_value", "bid"})
        ELSE Signal("hold", "yes", 0, "No edge",
                    {"basis_long", "basis_short", "threshold"})
GenerateSignal(kalshi_bid, kalshi_ask, fair_value_cents, entry_threshold) ==
    LET basis == CalculateBasis(kalshi_bid, kalshi_ask, fair_value_cents)
    IN  IF basis.basis_long > entry_threshold
        THEN Signal("buy", "yes", Confidence(basis.basis_long), "Long edge",
                    {"basis_long", "fair_value", "ask"})
        ELSE IF basis.basis_short > entry_threshold
        THEN Signal("sell", "yes", Confidence(basis.basis_short), "Short edge",
                    {"basis_short", "fair_value", "bid"})
        ELSE Signal("hold", "yes", 0, "No edge",
                    {"basis_long", "basis_short", "threshold"})

\* CMEArbitrageStrategy.update as a function of the object and its arguments
UpdateSignal(self, kalshi_bid, kalshi_ask, date, fair_value_cents) ==
    LET fv == FairValueLookup(self.cme_probs, date, fair_value_cents)
    IN  IF fv = None
        THEN Signal("hold", "yes", 0,
                    IF date = None THEN "No CME data available"
                                   ELSE "No CME data for date", {})
        ELSE GenerateSignal(kalshi_bid, kalshi_ask, fv[1], self.entry_threshold)

\* The (date, fair_value_cents) argument pairs of update: neither, a date, or
\* a fair value
UpdateArgs ==
    {<<None, None>>} \cup {<<Some(d), None>> : d \in Dates}
                     \cup {<<None, Some(f)>> : f \in FairValueArgs}

\* CMEArbitrageStrategy.update
UpdateClampingThreshold ==
    /\ call = NoCall
    /\ strategy.constructed
    /\ \E kalshi_bid \in QuotePrices, kalshi_ask \in QuotePrices, a \in UpdateArgs :
         /\ call' = [op |-> "update", kalshi_bid |-> kalshi_bid,
                     kalshi_ask |-> kalshi_ask, date |-> a[1],
                     fair_value_cents |-> a[2]]
         /\ ret' = UpdateSignal(strategy, kalshi_bid, kalshi_ask, a[1], a[2])
    /\ strategy' = [strategy EXCEPT !.entry_threshold = Max(@, 0)]
    /\ UNCHANGED <<csv, data, hike_size, backtester, kalshi, trader>>
Update ==
    /\ call = NoCall
    /\ strategy.constructed
    /\ \E kalshi_bid \in QuotePrices, kalshi_ask \in QuotePrices, a \in UpdateArgs :
         /\ call' = [op |-> "update", kalshi_bid |-> kalshi_bid,
                     kalshi_ask |-> kalshi_ask, date |-> a[1],
                     fair_value_cents |-> a[2]]
         /\ ret' = UpdateSignal(strategy, kalshi_bid, kalshi_ask, a[1], a[2])
    /\ UNCHANGED <<csv, data, hike_size, strategy, backtester, kalshi, trader>>


\* pd.concat([cme_probs, kalshi_data[['yes_bid', 'yes_ask']]], axis=1): the
\* outer join on the date index; a cell whose side lacks the date is NaN
Concat(cme_probs, kalshi_data) ==
    [d \in DOMAIN cme_probs \cup DOMAIN kalshi_data |->
        [fair_value_prob |-> IF d \in DOMAIN cme_probs
                             THEN Some(cme_probs[d]) ELSE None,
         yes_bid |-> IF d \in DOMAIN kalshi_data
                     THEN Some(kalshi_data[d].yes_bid) ELSE None,
         yes_ask |-> IF d \in DOMAIN kalshi_data
                     THEN Some(kalshi_data[d].yes_ask) ELSE None]]

Complete(row) ==
    row.fair_value_prob # None /\ row.yes_bid # None /\ row.yes_ask # None

\* .dropna(): the rows without a NaN cell
DropNaFilled(frame) ==
    LET known == {d \in DOMAIN frame : frame[d].fair_value_prob # None}
        quoted == {d \in DOMAIN frame : frame[d].yes_bid # None /\ known # {}}
        near(d) == CHOOSE k \in known : \A e \in known :
                       \/ Distance(k, d) < Distance(e, d)
                       \/ (Distance(k, d) = Distance(e, d) /\ e <= k)
    IN  [d \in quoted |-> [frame[d] EXCEPT !.fair_value_prob = frame[near(d)].fair_value_prob]]
DropNa(frame) ==
    [d \in {e \in DOMAIN frame : Complete(frame[e])} |-> frame[d]]

\* strategy.py 147-149: 0 = Hold, 1 = Buy, -1 = Sell; the sell assignment
\* comes last
RowSignalReversed(basis_long, basis_short, entry_threshold) ==
    IF entry_threshold > basis_short
    THEN -1
    ELSE IF entry_threshold > basis_long THEN 1 ELSE 0
RowSignalInclusive(basis_long, basis_short, entry_threshold) ==
    IF basis_short >= entry_threshold THEN -1
    ELSE IF basis_long >= entry_threshold THEN 1 ELSE 0
RowSignal(basis_long, basis_short, entry_threshold) ==
    LET signal0 == 0
        signal1 == IF basis_long > entry_threshold THEN 1 ELSE signal0
    IN  IF basis_short > entry_threshold THEN -1 ELSE signal1

\* strategy.py 154-158: np.where(signal == 1, fv - ask, bid - fv)
PnlGrossSwapped(signal, fv_cents, yes_bid, yes_ask) ==
    IF signal = 1 THEN Tenths(yes_bid) - fv_cents ELSE fv_cents - Tenths(yes_ask)
PnlGross(signal, fv_cents, yes_bid, yes_ask) ==
    IF signal = 1 THEN fv_cents - Tenths(yes_ask) ELSE Tenths(yes_bid) - fv_cents

\* strategy.py 159
PnlNetAddsFees(pnl_gross, fees_round_trip) == pnl_gross + fees_round_trip
PnlNet(pnl_gross, fees_round_trip) == pnl_gross - fees_round_trip

\* CMEArbitrageStrategy.run_backtest as a function of the object and its
\* argument: the returned DataFrame, a row per date
\* trades = results_df[results_df['signal'] != 0]
IsTradeBuyOnly(signal) == signal = 1
IsTrade(signal) == signal # 0

RunBacktestFrame(self, kalshi_data) ==
    LET df == DropNa(Concat(self.cme_probs, kalshi_data))
        fv(d) == df[d].fair_value_prob[1] * 10
        bl(d) == fv(d) - Tenths(df[d].yes_ask[1])
        bs(d) == Tenths(df[d].yes_bid[1]) - fv(d)
        sig(d) == RowSignal(bl(d), bs(d), self.entry_threshold)
        trades == {d \in DOMAIN df : IsTrade(sig(d))}
        gross(d) == PnlGross(sig(d), fv(d), df[d].yes_bid[1], df[d].yes_ask[1])
    IN  [d \in DOMAIN df |->
            [fair_value_prob |-> df[d].fair_value_prob[1],
             yes_bid |-> df[d].yes_bid[1],
             yes_ask |-> df[d].yes_ask[1],
             fv_cents |-> fv(d),
             basis_long |-> bl(d),
             basis_short |-> bs(d),
             signal |-> sig(d),
             pnl_gross |-> IF trades = {} THEN Some(0)
                           ELSE IF d \in trades THEN Some(gross(d)) ELSE None,
             pnl_net |-> IF trades = {} THEN Some(0)
                         ELSE IF d \in trades
                              THEN Some(PnlNet(gross(d), self.fees_round_trip))
                              ELSE None]]

\* CMEArbitrageStrategy.run_backtest
RunBacktest ==
    /\ call = NoCall
    /\ strategy.constructed
    /\ \E kalshi_data \in SeriesOver(Quotes) :
         /\ call' = [op |-> "run_backtest", kalshi_data |-> kalshi_data]
         /\ ret' = [kind |-> "DataFrame",
                    rows |-> RunBacktestFrame(strategy, kalshi_data)]
    /\ UNCHANGED <<csv, data, hike_size, strategy, backtester, kalshi, trader>>

----------------------------------------------------------------------------
(* Specifications *)

\* The strategy object: constructed once, then update and run_backtest in
\* any order.
Init ==
    /\ csv = <<>>
    /\ data = NoData
    /\ hike_size = DefaultHikeSize
    /\ strategy = NoStrategy
    /\ backtester = NoBacktester
    /\ kalshi = NoGetTrades
    /\ trader = NoTrader
    /\ call = NoCall
    /\ ret = NoReturn

Next ==
    \/ Construct
    \/ Update
    \/ RunBacktest
    \/ Return

Spec == Init /\ [][Next]_vars

\* The CME client over a price file.
InitCME ==
    /\ csv \in CsvFiles
    /\ data = NoData
    /\ hike_size = DefaultHikeSize
    /\ strategy = NoStrategy
    /\ backtester = NoBacktester
    /\ kalshi = NoGetTrades
    /\ trader = NoTrader
    /\ call = NoCall
    /\ ret = NoReturn

NextCME ==
    \/ LoadData
    \/ SetHikeSize
    \/ CalculateProbabilities
    \/ Return

SpecCME == InitCME /\ [][NextCME]_vars

\* main() of backtest_cme_arbitrage.py, steps 1 and 3: the probabilities of
\* the CME client become the strategy's cme_probs.  The price file holds one
\* price per date here, so the series is a function of the date.
UniqueDates(rows) ==
    \A i \in 1..Len(rows), j \in 1..Len(rows) : i # j => rows[i].Date # rows[j].Date

SeriesOf(rows) ==
    [d \in {rows[i].Date : i \in 1..Len(rows)} |->
        (CHOOSE r \in {rows[i] : i \in 1..Len(rows)} : r.Date = d).hike_prob]

\* backtest_cme_arbitrage.py 70, 92-96
PipelineConstruct ==
    /\ call.op = "calculate_probabilities"
    /\ ~strategy.constructed
    /\ \E entry_threshold \in ThresholdValues, fees_round_trip \in FeeValues :
         strategy' = [constructed |-> TRUE,
                      cme_probs |-> SeriesOf(ret.rows),
                      entry_threshold |-> entry_threshold,
                      fees_round_trip |-> fees_round_trip]
    /\ call' = NoCall
    /\ ret' = NoReturn
    /\ UNCHANGED <<csv, data, hike_size, backtester, kalshi, trader>>

InitPipeline ==
    /\ csv \in {f \in CsvFiles : UniqueDates(f)}
    /\ data = NoData
    /\ hike_size = DefaultHikeSize
    /\ strategy = NoStrategy
    /\ backtester = NoBacktester
    /\ kalshi = NoGetTrades
    /\ trader = NoTrader
    /\ call = NoCall
    /\ ret = NoReturn

NextPipeline ==
    \/ CalculateProbabilities
    \/ PipelineConstruct
    \/ Update
    \/ Return

SpecPipeline == InitPipeline /\ [][NextPipeline]_vars

----------------------------------------------------------------------------
(* main() of backtest_cme_arbitrage.py, steps 3 and 4: replay and metrics *)

MaxDays == 3
MainDates == 1..MaxDays

\* The days of a replay: probability (percent) and quote (cents).  The
\* quotes are generated from cme_probs, so both have the same dates.
MainRows ==
    {[prob |-> 55, yes_bid |-> 47, yes_ask |-> 50],
     [prob |-> 52, yes_bid |-> 47, yes_ask |-> 50],
     [prob |-> 50, yes_bid |-> 49, yes_ask |-> 51],
     [prob |-> 50, yes_bid |-> 47, yes_ask |-> 50],
     [prob |-> 45, yes_bid |-> 46, yes_ask |-> 49],
     [prob |-> 45, yes_bid |-> 51, yes_ask |-> 54]}
MainThresholds == {0, 45}
MainFees == {0, 20}

RECURSIVE SumOver(_, _)
SumOver(f, S) ==
    IF S = {} THEN 0
    ELSE LET d == CHOOSE x \in S : TRUE
         IN  f[d] + SumOver(f, S \ {d})

\* trades['pnl_net'] > 0
IsWinningOrFlat(pnl_net) == pnl_net >= 0
IsWinning(pnl_net) == pnl_net > 0
\* trades['pnl_net'] <= 0
IsLosing(pnl_net) == pnl_net <= 0

\* Lines 99-114 and the else branch at 147: the metrics printed for the
\* trades, none when no trade triggered.  A mean is kept as the fraction
\* num / den.  As in pandas, sum and mean skip a NaN and a comparison with
\* a NaN is False.
MainMetrics(results_df) ==
    LET trades == {d \in DOMAIN results_df : results_df[d].signal # 0}
        valued == {d \in trades : results_df[d].pnl_net # None}
        net == [d \in valued |-> results_df[d].pnl_net[1]]
        wins == [d \in valued |-> IF IsWinning(net[d]) THEN 1 ELSE 0]
        losses == [d \in valued |-> IF IsLosing(net[d]) THEN 1 ELSE 0]
    IN  IF Cardinality(trades) > 0
        THEN Some([total_trades |-> Cardinality(trades),
                   total_pnl |-> SumOver(net, valued),
                   winning_trades |-> SumOver(wins, valued),
                   losing_trades |-> SumOver(losses, valued),
                   win_rate |-> [num |-> SumOver(wins, valued) * 100,
                                 den |-> Cardinality(trades)],
                   avg_pnl |-> [num |-> SumOver(net, valued),
                                den |-> Cardinality(valued)]])
        ELSE None

\* main(): strategy = CMEArbitrageStrategy(...); results_df =
\* strategy.run_backtest(kalshi_data); then the metrics
Main ==
    /\ call = NoCall
    /\ ~strategy.constructed
    /\ \E D \in SUBSET MainDates,
          entry_threshold \in MainThresholds,
          fees_round_trip \in MainFees :
         \E days \in [D -> MainRows] :
            LET cme_probs == [d \in D |-> days[d].prob]
                kalshi_data == [d \in D |-> [yes_bid |-> days[d].yes_bid,
                                             yes_ask |-> days[d].yes_ask]]
                self == [constructed |-> TRUE,
                         cme_probs |-> cme_probs,
                         entry_threshold |-> entry_threshold,
                         fees_round_trip |-> fees_round_trip]
                results_df == RunBacktestFrame(self, kalshi_data)
            IN  /\ strategy' = self
                /\ call' = [op |-> "main", kalshi_data |-> kalshi_data]
                /\ ret' = [kind |-> "Report",
                           results_df |-> results_df,
                           metrics |-> MainMetrics(results_df)]
    /\ UNCHANGED <<csv, data, hike_size, backtester, kalshi, trader>>

NextMain ==
    \/ Main
    \/ Return

SpecMain == Init /\ [][NextMain]_vars

----------------------------------------------------------------------------
(* generate_kalshi_mock of backtest_cme_arbitrage.py *)

\* Probabilities (percent) and noise draws (tenths of a cent of market
\* centre) of the mock generator.  The draws of np.random.normal are
\* unbounded, so the centre can leave [0, 100] on either side.
MockProbs == {0, 50, 100}
NoiseValues == {-1500, -15, 0, 4, 1500}

SpreadWidth == 4

\* int(x) of a float x = n / d: truncation toward zero
IntTrunc(n, d) == IF n >= 0 THEN n \div d ELSE -((-n) \div d)

\* bid = max(1, min(98, bid))
ClampBid(bid) == Max(1, Min(98, bid))
\* ask = max(bid + 1, min(99, ask))
ClampAskUpperOnly(bid, ask) == Min(99, ask)
ClampAsk(bid, ask) == Max(bid + 1, Min(99, ask))

\* One pass of the loop body, lines 36-49
MockQuote(true_prob, noise) ==
    LET market_center_cents == true_prob * 10 + noise
        raw_bid == IntTrunc(market_center_cents - (SpreadWidth * 10) \div 2, 10)
        raw_ask == IntTrunc(market_center_cents + (SpreadWidth * 10) \div 2, 10)
        bid == ClampBid(raw_bid)
    IN  [yes_bid |-> bid, yes_ask |-> ClampAsk(bid, raw_ask)]

GenerateKalshiMock ==
    /\ call = NoCall
    /\ \E cme_probs \in SeriesOver(MockProbs) :
         \E noise \in [DOMAIN cme_probs -> NoiseValues] :
            /\ call' = [op |-> "generate_kalshi_mock",
                        cme_probs |-> cme_probs, noise |-> noise]
            /\ ret' = [kind |-> "DataFrame",
                       rows |-> [d \in DOMAIN cme_probs |->
                                    MockQuote(cme_probs[d], noise[d])]]
    /\ UNCHANGED <<csv, data, hike_size, strategy, backtester, kalshi, trader>>

NextMock ==
    \/ GenerateKalshiMock
    \/ Return

SpecMock == Init /\ [][NextMock]_vars

----------------------------------------------------------------------------
(* Backtester of execution/backtest.py *)

MaxTrades == 2

ContractsPerTrade == 10

\* What run() uses of the strategy it is given: whether it has a reset()
\* method.  CMEArbitrageStrategy has none.
BacktestStrategies == [has_reset : BOOLEAN]
InitialBalances == {0, 10000}
ContractsValues == {1, ContractsPerTrade}
Commissions == {0, 1}
Sides == {"yes", "no"}
YesPrices == {40, 50, 53}
\* Prices as passed to run_from_prices, in tenths of a cent
FloatPrices == {400, 505, 539}

\* kalshi_client.Trade, by the fields the backtester is given
TradeOf(i, yes_price) ==
    [trade_id |-> i, ticker |-> "TEST", yes_price |-> yes_price,
     count |-> 1, taker_side |-> "yes"]
TradeLists ==
    {[i \in 1..Len(prices) |-> TradeOf(i - 1, prices[i])] :
        prices \in SeqsUpTo(YesPrices, MaxTrades)}

\* Backtester.__init__
BacktesterInit ==
    /\ call = NoCall
    /\ ~backtester.constructed
    /\ \E s \in BacktestStrategies, initial_balance \in InitialBalances,
          contracts_per_trade \in ContractsValues,
          commission \in Commissions, side \in Sides :
         backtester' = [constructed |-> TRUE,
                        strategy |-> s,
                        initial_balance |-> initial_balance,
                        contracts_per_trade |-> contracts_per_trade,
                        commission |-> commission,
                        side |-> side]
    /\ UNCHANGED <<csv, data, hike_size, strategy, kalshi, trader, call, ret>>

Raised(type) == [kind |-> "exception", type |-> type]

\* Backtester.run: self.strategy.reset() raises AttributeError for a
\* strategy without reset(); otherwise the body, which is all TODO, reaches
\* BacktestResult(...), a call with the one argument Ellipsis for nine
\* required fields, which raises TypeError.  No BacktestResult is returned.
BacktesterRunResult(self, trades) ==
    IF ~self.strategy.has_reset
    THEN Raised("AttributeError")
    ELSE Raised("TypeError")

BacktesterRun ==
    /\ call = NoCall
    /\ backtester.constructed
    /\ \E trades \in TradeLists :
         /\ call' = [op |-> "run", trades |-> trades]
         /\ ret' = BacktesterRunResult(backtester, trades)
    /\ UNCHANGED <<csv, data, hike_size, strategy, backtester, kalshi, trader>>

\* Backtester.run_from_prices: Trade(yes_price=int(price), ...) for each
\* price, then run
BacktesterRunFromPrices ==
    /\ call = NoCall
    /\ backtester.constructed
    /\ \E prices \in SeqsUpTo(FloatPrices, MaxTrades) :
         LET fake_trades == [i \in 1..Len(prices) |->
                                TradeOf(i - 1, prices[i] \div 10)]
         IN  /\ call' = [op |-> "run_from_prices", prices |-> prices,
                         trades |-> fake_trades]
             /\ ret' = BacktesterRunResult(backtester, fake_trades)
    /\ UNCHANGED <<csv, data, hike_size, strategy, backtester, kalshi, trader>>

NextBacktester ==
    \/ BacktesterInit
    \/ BacktesterRun
    \/ BacktesterRunFromPrices
    \/ Return

SpecBacktester == Init /\ [][NextBacktester]_vars

----------------------------------------------------------------------------
(* KalshiClient.get_trades of kalshi_client.py *)

MaxLimit == 2
MaxPage == 2
MaxRequests == 4

Limits == 0..MaxLimit
\* created_time of a trade; the other fields of a Trade are copied as they
\* come
TradeTimes == {1, 2}
\* A response of GET /markets/trades: its trades and its cursor, if any
Pages == [trades : SeqsUpTo(TradeTimes, MaxPage), cursor : {None, Some("c")}]

\* sorted(trades, key=lambda x: x.created_time)
RECURSIVE SortedByTime(_)
SortedByTime(trades) ==
    IF trades = <<>> THEN <<>>
    ELSE LET i == CHOOSE k \in 1..Len(trades) :
                    \A j \in 1..Len(trades) :
                        trades[k] < trades[j] \/ (trades[k] = trades[j] /\ k <= j)
         IN  <<trades[i]>> \o SortedByTime(SubSeq(trades, 1, i - 1)
                                              \o SubSeq(trades, i + 1, Len(trades)))

\* if not cursor or len(trades) >= limit: break
LoopBreaksAboveLimit(cursor, trades, limit) ==
    cursor = None \/ Len(trades) > limit
LoopBreaks(cursor, trades, limit) ==
    cursor = None \/ Len(trades) >= limit

\* get_trades up to the loop: trades = [], cursor = None
GetTrades ==
    /\ call = NoCall
    /\ kalshi.pc = "idle"
    /\ \E limit \in Limits :
         kalshi' = [pc |-> "loop", limit |-> limit, trades |-> <<>>,
                    cursor |-> None, requests |-> 0,
                    cursor_pages_nonempty |-> TRUE]
    /\ UNCHANGED <<csv, data, hike_size, strategy, backtester, trader, call, ret>>

\* One iteration of the loop whose request is answered by a page: the
\* trades of the page are appended, the cursor is taken, and the loop breaks
\* or goes on; after the break the sorted list is returned.
\* cursor_pages_nonempty records whether every page with a cursor so far
\* carried a trade.  Iterations are capped at MaxRequests.
GetTradesPage ==
    /\ kalshi.pc = "loop"
    /\ kalshi.requests < MaxRequests
    /\ \E page \in Pages :
         LET trades == kalshi.trades \o page.trades
             requests == kalshi.requests + 1
             nonempty == kalshi.cursor_pages_nonempty
                           /\ (page.cursor # None => page.trades # <<>>)
         IN  IF LoopBreaks(page.cursor, trades, kalshi.limit)
             THEN /\ kalshi' = NoGetTrades
                  /\ call' = [op |-> "get_trades", limit |-> kalshi.limit,
                              requests |-> requests, cursor |-> page.cursor,
                              cursor_pages_nonempty |-> nonempty]
                  /\ ret' = [kind |-> "list", trades |-> SortedByTime(trades)]
             ELSE /\ kalshi' = [kalshi EXCEPT !.trades = trades,
                                              !.cursor = page.cursor,
                                              !.requests = requests,
                                              !.cursor_pages_nonempty = nonempty]
                  /\ UNCHANGED <<call, ret>>
    /\ UNCHANGED <<csv, data, hike_size, strategy, backtester, trader>>

\* One iteration whose request fails: response.raise_for_status() raises in
\* _request and get_trades lets the exception through.
GetTradesHTTPError ==
    /\ kalshi.pc = "loop"
    /\ kalshi.requests < MaxRequests
    /\ kalshi' = NoGetTrades
    /\ call' = [op |-> "get_trades", limit |-> kalshi.limit,
                requests |-> kalshi.requests + 1, cursor |-> kalshi.cursor,
                cursor_pages_nonempty |-> kalshi.cursor_pages_nonempty]
    /\ ret' = [kind |-> "exception", type |-> "HTTPError"]
    /\ UNCHANGED <<csv, data, hike_size, strategy, backtester, trader>>

NextTrades ==
    \/ GetTrades
    \/ GetTradesPage
    \/ GetTradesHTTPError
    \/ Return

SpecTrades == Init /\ [][NextTrades]_vars

----------------------------------------------------------------------------
(* LiveTrader of live.py *)

\* Cents of a market's yes_bid, yes_ask and last_price
MarketPrices == {40, 43, 50}
Optional(S) == {None} \cup {Some(x) : x \in S}
\* kalshi_client.Market by the fields _get_current_price reads.  The
\* dataclass has no yes_bid_size and no yes_ask_size attribute.
Markets ==
    [yes_bid : Optional(MarketPrices), yes_ask : Optional(MarketPrices),
     last_price : Optional(MarketPrices)]
\* client.get_market: a Market, or an exception of the request
MarketResponses == {[ok |-> FALSE]} \cup {[ok |-> TRUE, market |-> m] : m \in Markets}

TraderSignals == {Some("buy"), Some("sell"), Some("hold"), None}
ExecutePrices == {1, 50, 99}

\* LiveTrader.__init__ with a LiveConfig
TraderInit ==
    /\ call = NoCall
    /\ ~trader.constructed
    /\ \E dry_run \in BOOLEAN, contracts_per_trade \in {1, ContractsPerTrade} :
         trader' = [constructed |-> TRUE,
                    config |-> [dry_run |-> dry_run,
                                contracts_per_trade |-> contracts_per_trade],
                    running |-> FALSE,
                    position |-> 0,
                    pc |-> "idle",
                    orders |-> 0]
    /\ UNCHANGED <<csv, data, hike_size, strategy, backtester, kalshi, call, ret>>

\* Reading market.yes_bid_size raises AttributeError, which the except
\* clause of _get_current_price turns into None; the test is reached only
\* when yes_bid and yes_ask are both present (the `and` chain stops at the
\* first absent one).
GetCurrentPriceResult(response) ==
    IF ~response.ok
    THEN None
    ELSE LET market == response.market
         IN  IF market.yes_bid # None /\ market.yes_ask # None
             THEN None
             ELSE market.last_price

\* LiveTrader._get_current_price
GetCurrentPrice ==
    /\ call = NoCall
    /\ trader.constructed
    /\ trader.pc = "idle"
    /\ \E response \in MarketResponses :
         /\ call' = [op |-> "_get_current_price", response |-> response]
         /\ ret' = [kind |-> "price", value |-> GetCurrentPriceResult(response)]
    /\ UNCHANGED <<csv, data, hike_size, strategy, backtester, kalshi, trader>>

\* LiveTrader._execute_signal: False for a signal without action, and, the
\* body being TODO comments, False for every other signal; no order is
\* placed and no attribute is assigned.
ExecuteSignal ==
    /\ call = NoCall
    /\ trader.constructed
    /\ trader.pc = "idle"
    /\ \E action \in TraderSignals, price \in ExecutePrices :
         /\ call' = [op |-> "_execute_signal", action |-> action, price |-> price]
         /\ ret' = [kind |-> "bool", value |-> FALSE]
    /\ UNCHANGED <<csv, data, hike_size, strategy, backtester, kalshi, trader>>

\* finally: self.running = False
RunFinallySkipped(self) == [self EXCEPT !.pc = "idle"]
RunFinally(self) == [self EXCEPT !.running = FALSE, !.pc = "idle"]

\* LiveTrader.run up to time.sleep(poll_interval) in the first iteration
Run ==
    /\ call = NoCall
    /\ trader.constructed
    /\ trader.pc = "idle"
    /\ trader' = [trader EXCEPT !.running = TRUE, !.pc = "sleep"]
    /\ UNCHANGED <<csv, data, hike_size, strategy, backtester, kalshi, call, ret>>

\* The sleep ends: break, finally, return
RunWake ==
    /\ trader.constructed
    /\ trader.pc = "sleep"
    /\ trader' = RunFinally(trader)
    /\ call' = [op |-> "run", interrupted |-> FALSE]
    /\ ret' = [kind |-> "None"]
    /\ UNCHANGED <<csv, data, hike_size, strategy, backtester, kalshi>>

\* KeyboardInterrupt during the sleep: except, finally, return
RunKeyboardInterrupt ==
    /\ trader.constructed
    /\ trader.pc = "sleep"
    /\ trader' = RunFinally(trader)
    /\ call' = [op |-> "run", interrupted |-> TRUE]
    /\ ret' = [kind |-> "None"]
    /\ UNCHANGED <<csv, data, hike_size, strategy, backtester, kalshi>>

\* LiveTrader.stop, from the caller or, while run sleeps, from another
\* thread
Stop ==
    /\ trader.constructed
    /\ trader.pc = "sleep" \/ call = NoCall
    /\ trader' = [trader EXCEPT !.running = FALSE]
    /\ UNCHANGED <<csv, data, hike_size, strategy, backtester, kalshi, call, ret>>

NextLive ==
    \/ TraderInit
    \/ GetCurrentPrice
    \/ ExecuteSignal
    \/ Run
    \/ RunWake
    \/ RunKeyboardInterrupt
    \/ Stop
    \/ Return

SpecLive == Init /\ [][NextLive]_vars

----------------------------------------------------------------------------
(* Properties *)

IsUpdate == call.op = "update"
IsRunBacktest == call.op = "run_backtest"
IsCalculate == call.op = "calculate_probabilities"

\* The fair value (tenths of a cent) the update call at hand works with
CallFairValue ==
    FairValueLookup(strategy.cme_probs, call.date, call.fair_value_cents)

\* The dates of a returned frame whose signal is buy or sell
Triggered(rows) == {d \in DOMAIN rows : rows[d].signal # 0}

WithThreshold(self, t) == [self EXCEPT !.entry_threshold = t]

\* C1 (as claimed): update returns buy exactly when basis_long exceeds the
\* threshold and basis_long >= basis_short, otherwise sell exactly when
\* basis_short exceeds the threshold, otherwise hold with confidence 0.
\* Stated for the thresholds >= 0 only, where it fails all the same.
C1_DecisionRule ==
    (IsUpdate /\ CallFairValue # None /\ strategy.entry_threshold >= 0) =>
        LET fv == CallFairValue[1]
            basis_long == fv - 10 * call.kalshi_ask
            basis_short == 10 * call.kalshi_bid - fv
            t == strategy.entry_threshold
        IN  /\ ret.action =
                 (IF basis_long > t /\ basis_long >= basis_short THEN "buy"
                  ELSE IF basis_short > t THEN "sell" ELSE "hold")
            /\ (ret.action = "hold" => ret.confidence = 0)

\* C2: every probability calculate_probabilities returns or stores lies in
\* [0, 1] (0..100 percent), for every price and every step size.
C2_ClampingLaw ==
    /\ IsCalculate =>
         \A i \in DOMAIN ret.rows :
            ret.rows[i].hike_prob >= 0 /\ ret.rows[i].hike_prob <= 100
    /\ data.calc =>
         \A i \in DOMAIN data.cols :
            data.cols[i].hike_prob >= 0 /\ data.cols[i].hike_prob <= 100

\* C2 witness: with step 0.10, a price above 100 whose raw ratio 1.5 was
\* clipped to 1.
C2_Witness ==
    /\ IsCalculate
    /\ hike_size = 10
    /\ \E i \in DOMAIN ret.rows :
          data.rows[i].Price = 10010 /\ ret.rows[i].hike_prob = 100

\* C3 (as claimed): the probability is clamp((r - floor(r/s)*s) / s, 0, 1)
\* with r = 100 - p and s the client's step size in both places.
C3_SameStepDerivation ==
    IsCalculate =>
        \A i \in DOMAIN ret.rows :
            LET r == 10000 - data.rows[i].Price
                s == hike_size
                raw == ((r - (r \div s) * s) * 100) \div s
            IN  ret.rows[i].hike_prob =
                    (IF raw < 0 THEN 0 ELSE IF raw > 100 THEN 100 ELSE raw)

\* C4 (as claimed): every Signal of update has action in {buy, sell, hold},
\* side in {yes, no} and confidence in [0, 1]: min(basis/10, 1) for buy and
\* sell, 0 for hold.
C4_SignalWellFormed ==
    IsUpdate =>
        /\ ret.action \in {"buy", "sell", "hold"}
        /\ ret.side \in {"yes", "no"}
        /\ ret.confidence >= 0 /\ ret.confidence <= 100
        /\ (ret.action = "hold" => ret.confidence = 0)


\* C5 (as claimed): for every triggered row gross P&L is fv - ask for a buy
\* and bid - fv for a sell, and the recorded net P&L is (gross - fees)
\* scaled by contracts_per_trade.  Stated for the rows with bid < ask under
\* a threshold >= 0 only, where it fails all the same.
C5_ReplayPnlScaled ==
    (IsRunBacktest /\ strategy.entry_threshold >= 0) =>
        \A d \in {e \in Triggered(ret.rows) :
                    ret.rows[e].yes_bid < ret.rows[e].yes_ask} :
            LET row == ret.rows[d]
                gross == IF row.signal = 1
                         THEN row.fv_cents - 10 * row.yes_ask
                         ELSE 10 * row.yes_bid - row.fv_cents
            IN  /\ row.pnl_gross = <<gross>>
                /\ row.pnl_net =
                     <<(gross - strategy.fees_round_trip) * ContractsPerTrade>>

\* C5 (amended): for every triggered row gross P&L is fv - ask for a buy and
\* bid - fv for a sell, and the recorded net P&L is gross - fees_round_trip,
\* per contract.
C5_ReplayPnlPerContract ==
    IsRunBacktest =>
        \A d \in Triggered(ret.rows) :
            LET row == ret.rows[d]
                gross == IF row.signal = 1
                         THEN row.fv_cents - 10 * row.yes_ask
                         ELSE 10 * row.yes_bid - row.fv_cents
            IN  /\ row.pnl_gross = <<gross>>
                /\ row.pnl_net = <<gross - strategy.fees_round_trip>>

\* C5 witness: a replay under threshold 4.5 and fees 2.0 holding a buy row
\* and a sell row, both on quotes with bid < ask and with a net P&L that is
\* not zero.
C5_Witness ==
    /\ IsRunBacktest
    /\ strategy.entry_threshold = 45
    /\ strategy.fees_round_trip = 20
    /\ \E d, e \in DOMAIN ret.rows :
          /\ ret.rows[d].signal = 1 /\ ret.rows[d].pnl_net # <<0>>
          /\ ret.rows[d].yes_bid < ret.rows[d].yes_ask
          /\ ret.rows[e].signal = -1 /\ ret.rows[e].pnl_net # <<0>>
          /\ ret.rows[e].yes_bid < ret.rows[e].yes_ask

\* C6: over fixed rows, raising the entry threshold never adds a triggered
\* row: the rows triggered under a threshold t2 >= t1 are among those
\* triggered under t1 (run_backtest), and a quote update holds on under t1
\* it holds on under t2.
C6_ThresholdMonotone ==
    /\ IsRunBacktest =>
         \A t2 \in ThresholdValues :
            t2 >= strategy.entry_threshold =>
                Triggered(RunBacktestFrame(WithThreshold(strategy, t2),
                                           call.kalshi_data))
                    \subseteq Triggered(ret.rows)
    /\ (IsUpdate /\ ret.action = "hold") =>
         \A t2 \in ThresholdValues :
            t2 >= strategy.entry_threshold =>
                UpdateSignal(WithThreshold(strategy, t2), call.kalshi_bid,
                             call.kalshi_ask, call.date,
                             call.fair_value_cents).action = "hold"

\* C6 witness: a replay of quotes with bid < ask under threshold 0 with a
\* triggered row that the threshold 4.5 no longer triggers, and one that it
\* still does.
C6_Witness ==
    /\ IsRunBacktest
    /\ strategy.entry_threshold = 0
    /\ \A d \in DOMAIN ret.rows : ret.rows[d].yes_bid < ret.rows[d].yes_ask
    /\ LET higher == Triggered(RunBacktestFrame(WithThreshold(strategy, 45),
                                                call.kalshi_data))
       IN  higher # {} /\ higher # Triggered(ret.rows)

\* The series dates closest to a date
Closest(series, date) ==
    {n \in DOMAIN series :
        \A e \in DOMAIN series : Distance(n, date) <= Distance(e, date)}

MissingDateCall ==
    /\ IsUpdate
    /\ call.fair_value_cents = None
    /\ call.date # None
    /\ call.date[1] \notin DOMAIN strategy.cme_probs

\* The returned frame is the inner join: a row for exactly the dates both
\* sides have, each with the fair value and the quote of its own date.
InnerJoined ==
    IsRunBacktest =>
        /\ DOMAIN ret.rows =
             DOMAIN strategy.cme_probs \cap DOMAIN call.kalshi_data
        /\ \A d \in DOMAIN ret.rows :
              /\ ret.rows[d].fair_value_prob = strategy.cme_probs[d]
              /\ ret.rows[d].fv_cents = 10 * strategy.cme_probs[d]
              /\ ret.rows[d].yes_bid = call.kalshi_data[d].yes_bid
              /\ ret.rows[d].yes_ask = call.kalshi_data[d].yes_ask

C8_InvalidQuoteNeverTraded ==
    /\ (/\ IsUpdate
        /\ ret.action \in {"buy", "sell"}
        /\ strategy.entry_threshold >= 0) =>
         call.kalshi_bid < call.kalshi_ask
    /\ (IsRunBacktest /\ strategy.entry_threshold >= 0) =>
         \A d \in Triggered(ret.rows) :
            ret.rows[d].yes_bid < ret.rows[d].yes_ask

\* C9: on a quote with bid < ask and a threshold >= 0, basis_long and
\* basis_short never both exceed the threshold, in update and in every row
\* of run_backtest.
C9_BuySellExclusive ==
    /\ (/\ IsUpdate
        /\ CallFairValue # None
        /\ call.kalshi_bid < call.kalshi_ask
        /\ strategy.entry_threshold >= 0) =>
         LET basis == CalculateBasis(call.kalshi_bid, call.kalshi_ask,
                                     CallFairValue[1])
         IN  ~(/\ basis.basis_long > strategy.entry_threshold
               /\ basis.basis_short > strategy.entry_threshold)
    /\ (IsRunBacktest /\ strategy.entry_threshold >= 0) =>
         \A d \in DOMAIN ret.rows :
            ret.rows[d].yes_bid < ret.rows[d].yes_ask =>
                ~(/\ ret.rows[d].basis_long > strategy.entry_threshold
                  /\ ret.rows[d].basis_short > strategy.entry_threshold)

\* C9 witness: update on a valid quote under threshold 4.5 returned a buy.
C9_Witness ==
    /\ IsUpdate
    /\ call.kalshi_bid < call.kalshi_ask
    /\ strategy.entry_threshold = 45
    /\ ret.action = "buy"

\* C10 (as claimed): a strategy with a negative entry_threshold is never
\* constructed, so no signal is produced under one.
C10_ConstructionValidation ==
    strategy.constructed => strategy.entry_threshold >= 0

\* C11: on a quote with bid < ask under a threshold >= 0, update does not
\* hold when the fair value lies outside [bid, ask] by more than the
\* threshold: it buys when fv > ask + threshold and sells when
\* fv < bid - threshold.
C11_NoHoldOnClearEdge ==
    (/\ IsUpdate
     /\ CallFairValue # None
     /\ call.kalshi_bid < call.kalshi_ask
     /\ strategy.entry_threshold >= 0) =>
        LET fv == CallFairValue[1]
            t == strategy.entry_threshold
        IN  /\ fv > 10 * call.kalshi_ask + t => ret.action = "buy"
            /\ fv < 10 * call.kalshi_bid - t => ret.action = "sell"

\* C11 witness: under threshold 4.5 the fair value lies more than 4.5 cents
\* below the bid of a valid quote, and update sold.
C11_Witness ==
    /\ IsUpdate
    /\ CallFairValue # None
    /\ call.kalshi_bid < call.kalshi_ask
    /\ strategy.entry_threshold = 45
    /\ CallFairValue[1] < 10 * call.kalshi_bid - 45
    /\ ret.action = "sell"

\* The price of a date in the client's loaded data, <<>> when it has none
PriceOn(d) ==
    IF \E i \in DOMAIN data.rows : data.rows[i].Date = d
    THEN <<data.rows[CHOOSE i \in DOMAIN data.rows : data.rows[i].Date = d].Price>>
    ELSE <<>>

ScenarioCall ==
    /\ IsUpdate
    /\ call.fair_value_cents = None
    /\ call.date # None
    /\ PriceOn(call.date[1]) = <<9636>>
    /\ call.kalshi_bid = 50
    /\ call.kalshi_ask = 53
    /\ strategy.entry_threshold = 45

\* C18: settlement price 96.36 with step 0.25 gives implied rate 3.64, base
\* rate 3.50 and probability 0.56; update on that date with bid 50, ask 53
\* under threshold 4.5 works with fair value 56, basis_long 3, and holds.
C18_ConcreteScenario ==
    /\ IsCalculate =>
         \A i \in DOMAIN data.rows :
            data.rows[i].Price = 9636 =>
                /\ data.cols[i].implied_rate = 364
                /\ data.cols[i].base_rate_est = 350
                /\ data.cols[i].hike_prob = 56
                /\ ret.rows[i].hike_prob = 56
    /\ ScenarioCall =>
         /\ CallFairValue = <<560>>
         /\ CallFairValue[1] - 10 * call.kalshi_ask = 30
         /\ ret.action = "hold"
         /\ ret.confidence = 0

\* C18 witness: the scenario's update call, made on a date whose price is
\* 96.36, returned.
C18_Witness ==
    ScenarioCall /\ ret.kind = "Signal"

ReportsAll == {"basis_long", "basis_short", "fair_value"}

\* C20 (as claimed): for every outcome the reason of the Signal reports
\* basis_long, basis_short and the fair value.  Stated for the calls that
\* found a fair value only, where it fails all the same.
C20_ReasonReportsAll ==
    (IsUpdate /\ CallFairValue # None) => ReportsAll \subseteq ret.shows

\* C20 (amended): the reason of a buy reports basis_long, the fair value and
\* the ask; that of a sell reports basis_short, the fair value and the bid;
\* that of a hold for lack of edge reports basis_long, basis_short and the
\* threshold; that of a hold for lack of CME data reports none of them.
C20_ReasonPerOutcome ==
    IsUpdate =>
        /\ ret.action = "buy" =>
             ret.reason = "Long edge"
             /\ ret.shows = {"basis_long", "fair_value", "ask"}
        /\ ret.action = "sell" =>
             ret.reason = "Short edge"
             /\ ret.shows = {"basis_short", "fair_value", "bid"}
        /\ (ret.action = "hold" /\ CallFairValue # None) =>
             ret.reason = "No edge"
             /\ ret.shows = {"basis_long", "basis_short", "threshold"}
        /\ (ret.action = "hold" /\ CallFairValue = None) => ret.shows = {}

\* C20 witness: a hold on a valid quote under threshold 4.5 whose reason
\* does not report the fair value.
C20_Witness ==
    /\ IsUpdate
    /\ CallFairValue # None
    /\ call.kalshi_bid < call.kalshi_ask
    /\ strategy.entry_threshold = 45
    /\ ret.action = "hold"
    /\ "fair_value" \notin ret.shows

\* A quote row that the replay is to skip: its date has no fair value, or
\* its bid is not below its ask
InvalidRow(d) ==
    \/ d \notin DOMAIN strategy.cme_probs
    \/ call.kalshi_data[d].yes_bid >= call.kalshi_data[d].yes_ask

\* C15 (as claimed): a replay whose rows are all invalid completes with an
\* all-zero result (no trade, no P&L) and reports a non-zero count of
\* skipped rows.  Stated for the thresholds >= 0 only, where it fails all
\* the same.
C15_AllInvalidRowsSkipped ==
    (/\ IsRunBacktest
     /\ strategy.entry_threshold >= 0
     /\ DOMAIN call.kalshi_data # {}
     /\ \A d \in DOMAIN call.kalshi_data : InvalidRow(d)) =>
        /\ ret.kind = "DataFrame"
        /\ Triggered(ret.rows) = {}
        /\ \A d \in DOMAIN ret.rows :
             ret.rows[d].pnl_gross = Some(0) /\ ret.rows[d].pnl_net = Some(0)
        /\ "skipped" \in DOMAIN ret

IsMain == call.op = "main"

TradeNet(d) == ret.results_df[d].pnl_net[1]

\* The replay of the quote of date d alone
ReplayAlone(d) ==
    RunBacktestFrame(strategy, [x \in {d} |-> call.kalshi_data[d]])

\* C14: in a replay the trades are the rows with a buy or sell signal: each
\* such row carries one realized P&L, that of its own quote and fair value;
\* a hold row carries none (0 throughout when no row triggered); a row's
\* signal and P&L are those of the replay of that row alone, so nothing is
\* carried from one date to another; the number of trades reported is the
\* number of triggered rows.
C14_OneRoundTripPerSignal ==
    IsMain =>
        /\ \A d \in DOMAIN ret.results_df :
            LET row == ret.results_df[d]
                alone == ReplayAlone(d)[d]
                none == IF Triggered(ret.results_df) = {} THEN Some(0) ELSE None
            IN  /\ row.signal = alone.signal
                /\ row.signal # 0 =>
                     /\ row.pnl_gross # None
                     /\ row.pnl_net # None
                     /\ row.pnl_gross = alone.pnl_gross
                     /\ row.pnl_net = alone.pnl_net
                /\ row.signal = 0 =>
                     /\ row.pnl_gross = none
                     /\ row.pnl_net = none
        /\ ret.metrics # None =>
             ret.metrics[1].total_trades
                = Cardinality({d \in DOMAIN ret.results_df :
                                  ret.results_df[d].pnl_net # None})

\* C14 witness: a replay whose frame holds a buy row and a sell row, each
\* with its P&L, beside a hold row without one.
C14_Witness ==
    /\ IsMain
    /\ \E d, e, h \in DOMAIN ret.results_df :
         /\ ret.results_df[d].signal = 1
         /\ ret.results_df[d].pnl_net # None
         /\ ret.results_df[e].signal = -1
         /\ ret.results_df[e].pnl_net # None
         /\ ret.results_df[h].signal = 0
         /\ ret.results_df[h].pnl_net = None

\* C13: every trade of a replay is counted as exactly one of winning (net
\* P&L > 0) or losing (net P&L <= 0, so a net of exactly 0 is losing):
\* winning + losing = total trades, and win_rate = winning / total * 100
\* lies in [0, 100].
C13_WinLossClassification ==
    (IsMain /\ ret.metrics # None) =>
        LET m == ret.metrics[1]
            trades == Triggered(ret.results_df)
            W == {d \in trades : TradeNet(d) > 0}
            L == {d \in trades : TradeNet(d) <= 0}
        IN  /\ m.total_trades = Cardinality(trades)
            /\ m.winning_trades = Cardinality(W)
            /\ m.losing_trades = Cardinality(L)
            /\ m.winning_trades + m.losing_trades = m.total_trades
            /\ m.win_rate.num * m.total_trades
                  = m.winning_trades * 100 * m.win_rate.den
            /\ m.win_rate.den > 0
            /\ 0 <= m.win_rate.num
            /\ m.win_rate.num <= 100 * m.win_rate.den

\* C13 witness: metrics of a replay with a trade of net P&L exactly 0, counted
\* as losing, beside a winning trade.
C13_Witness ==
    /\ IsMain
    /\ ret.metrics # None
    /\ \E d, e \in Triggered(ret.results_df) :
         TradeNet(d) = 0 /\ TradeNet(e) > 0
    /\ ret.metrics[1].losing_trades >= 1
    /\ ret.metrics[1].winning_trades >= 1

\* The replay of C19: fees of 2 cents, two observations, a buy of gross
\* P&L 5 and a sell of gross P&L 1
ConcreteReplay ==
    /\ IsMain
    /\ strategy.fees_round_trip = 20
    /\ Cardinality(DOMAIN call.kalshi_data) = 2
    /\ \E d, e \in DOMAIN ret.results_df :
         /\ ret.results_df[d].signal = 1
         /\ ret.results_df[d].fv_cents - Tenths(call.kalshi_data[d].yes_ask) = 50
         /\ ret.results_df[e].signal = -1
         /\ Tenths(call.kalshi_data[e].yes_bid) - ret.results_df[e].fv_cents = 10

\* C19: two observations, one triggering a buy (gross 5, net +3) and one a
\* sell (gross 1, net -1) at fees_round_trip = 2, give 2 trades, 1 winning,
\* 1 losing, win rate 50.0 and total P&L +2.
C19_ConcreteReplay ==
    ConcreteReplay =>
        /\ \A d \in DOMAIN ret.results_df :
             /\ ret.results_df[d].signal = 1 => ret.results_df[d].pnl_net = Some(30)
             /\ ret.results_df[d].signal = -1 => ret.results_df[d].pnl_net = Some(-10)
        /\ ret.metrics # None
        /\ ret.metrics[1].total_trades = 2
        /\ ret.metrics[1].winning_trades = 1
        /\ ret.metrics[1].losing_trades = 1
        /\ ret.metrics[1].win_rate.num = 50 * ret.metrics[1].win_rate.den
        /\ ret.metrics[1].total_pnl = 20

\* C19 witness: the concrete replay ran and its report was printed.
C19_Witness ==
    ConcreteReplay /\ ret.kind = "Report" /\ ret.metrics # None

IsRun == call.op \in {"run", "run_from_prices"}

\* C12 (as claimed): the replay of an empty sequence of observations
\* completes without exception with a result of round-trip count 0, total
\* P&L 0, Sharpe ratio 0 and win rate 0.
C12_EmptyReplayAllZero ==
    (IsRun /\ call.trades = <<>>) =>
        /\ ret.kind = "BacktestResult"
        /\ ret.total_round_trips = 0
        /\ ret.total_pnl = 0
        /\ ret.sharpe_ratio = 0
        /\ ret.win_rate = 0

\* The cumulative P&L after the first k orders
RECURSIVE CumulativePnl(_, _)
CumulativePnl(orders, k) ==
    IF k = 0 THEN 0 ELSE CumulativePnl(orders, k - 1) + orders[k].pnl

\* The largest decline of the cumulative P&L from a point to a later one
PeakToTrough(orders) ==
    LET later == UNION {{CumulativePnl(orders, i) - CumulativePnl(orders, j) :
                            j \in i..Len(orders)} : i \in 0..Len(orders)}
    IN  CHOOSE m \in later : \A x \in later : x <= m

\* C16 (as claimed): the max drawdown of a replay is the largest
\* peak-to-trough decline of the cumulative net P&L of its orders in date
\* order, 0 when the curve never declines, and never negative.
C16_MaxDrawdown ==
    IsRun =>
        /\ ret.kind = "BacktestResult"
        /\ ret.max_drawdown >= 0
        /\ ret.max_drawdown = PeakToTrough(ret.orders)

\* C17 (as claimed): the Sharpe ratio of a replay is mean / stddev of the
\* P&L of its trades, and exactly 0, not an exception, when there are fewer
\* than two trades or the P&L has zero standard deviation.  Stated for the
\* replays of fewer than two observations, which have fewer than two trades.
C17_SharpeDegeneracy ==
    (IsRun /\ Len(call.trades) < 2) =>
        /\ ret.kind # "exception"
        /\ ret.kind = "BacktestResult"
        /\ ret.sharpe_ratio = 0

\* C21: update leaves cme_probs, entry_threshold and fees_round_trip as they
\* were at construction, and the Signal it returns is a function of its
\* arguments and of those fields alone; hence two calls with identical
\* arguments return identical Signals, whatever calls were made in between.
C21_UpdatePure ==
    [][/\ strategy.constructed => strategy' = strategy
       /\ call'.op = "update" =>
            ret' = UpdateSignal(strategy, call'.kalshi_bid, call'.kalshi_ask,
                                call'.date, call'.fair_value_cents)]_vars

\* C21 witness: update, called on a strategy of negative threshold with a
\* date to look up, returned a buy.
C21_Witness ==
    /\ IsUpdate
    /\ strategy.constructed
    /\ strategy.entry_threshold < 0
    /\ call.date # None
    /\ CallFairValue # None
    /\ ret.action = "buy"

IsLoadData == call.op = "load_data"

\* C22 (as claimed): after load_data, whatever the order of the rows of the
\* file, the price series is in ascending date order and holds no date more
\* than once.
C22_OrderedUniqueDates ==
    IsLoadData =>
        /\ data.loaded
        /\ IsSortedByDate(data.rows)
        /\ UniqueDates(data.rows)

IsMock == call.op = "generate_kalshi_mock"

\* C23: every quote produced by generate_kalshi_mock, for every fair
\* probability and every noise value, has 1 <= bid <= 98 and
\* bid < ask <= 99.
C23_MockQuoteValid ==
    IsMock =>
        \A d \in DOMAIN ret.rows :
            /\ 1 <= ret.rows[d].yes_bid
            /\ ret.rows[d].yes_bid <= 98
            /\ ret.rows[d].yes_bid < ret.rows[d].yes_ask
            /\ ret.rows[d].yes_ask <= 99

\* C23 witness: one frame with a quote clamped at the bottom (centre below
\* 0: the raw ask is not above the bid of 1) and a quote clamped at the top
\* (98 / 99).
C23_Witness ==
    /\ IsMock
    /\ \E d, e \in DOMAIN ret.rows :
         /\ call.cme_probs[d] * 10 + call.noise[d] < 0
         /\ ret.rows[d] = [yes_bid |-> 1, yes_ask |-> 2]
         /\ ret.rows[e] = [yes_bid |-> 98, yes_ask |-> 99]

\* The signal value run_backtest uses for an action of update
SignalOf(action) ==
    IF action = "buy" THEN 1 ELSE IF action = "sell" THEN -1 ELSE 0

\* C24 (as claimed): for every row of a replay, rows with bid >= ask
\* included, the action update returns for the row's bid, ask and fair value
\* is the signal run_backtest assigns to the row, under the same threshold.
\* Stated for the thresholds >= 0 only, where it fails all the same.
C24_UpdateAgreesWithReplay ==
    (IsRunBacktest /\ strategy.entry_threshold >= 0) =>
        \A d \in DOMAIN ret.rows :
            LET row == ret.rows[d]
                signal == UpdateSignal(strategy, row.yes_bid, row.yes_ask,
                                       None, Some(row.fv_cents))
            IN  SignalOf(signal.action) = row.signal

\* C25: every trade of a replay has pnl_gross > entry_threshold and so
\* pnl_net > entry_threshold - fees_round_trip; hence under
\* entry_threshold >= fees_round_trip no trade is losing, and a replay with
\* at least one trade has a win rate of 100%.
C25_NoLosingTradeAboveFees ==
    IsMain =>
        /\ \A d \in Triggered(ret.results_df) :
             /\ ret.results_df[d].pnl_gross[1] > strategy.entry_threshold
             /\ TradeNet(d) > strategy.entry_threshold - strategy.fees_round_trip
        /\ (strategy.entry_threshold >= strategy.fees_round_trip
              /\ ret.metrics # None) =>
             /\ \A d \in Triggered(ret.results_df) : TradeNet(d) > 0
             /\ ret.metrics[1].losing_trades = 0
             /\ ret.metrics[1].winning_trades = ret.metrics[1].total_trades
             /\ ret.metrics[1].win_rate.num = 100 * ret.metrics[1].win_rate.den

\* C25 witness: under the defaults 4.5 and 2.0 a replay with a buy and a
\* sell, whose report has no losing trade.
C25_Witness ==
    /\ IsMain
    /\ strategy.entry_threshold = 45
    /\ strategy.fees_round_trip = 20
    /\ ret.metrics # None
    /\ ret.metrics[1].losing_trades = 0
    /\ \E d, e \in Triggered(ret.results_df) :
         ret.results_df[d].signal = 1 /\ ret.results_df[e].signal = -1

IsGetTrades == call.op = "get_trades"

\* C27 (as claimed): get_trades returns at most `limit` trades, whatever
\* pages the server answers with.  Stated for the limits that no page
\* exceeds, where it fails all the same.
C27_AtMostLimitTrades ==
    (IsGetTrades /\ ret.kind = "list" /\ call.limit >= MaxPage) =>
        Len(ret.trades) <= call.limit

\* C28: while every page with a cursor carries at least one trade,
\* get_trades makes at most max(1, limit) requests: the loop goes on only
\* from a page with a cursor that left fewer than `limit` trades collected,
\* and the call returns at the first page without a cursor or with `limit`
\* trades or more collected.
C28_PaginationTerminates ==
    /\ (kalshi.pc = "loop" /\ kalshi.cursor_pages_nonempty) =>
         /\ kalshi.requests <= Max(1, kalshi.limit)
         /\ kalshi.requests > 0 =>
              /\ kalshi.cursor # None
              /\ Len(kalshi.trades) < kalshi.limit
              /\ kalshi.requests < kalshi.limit
              /\ kalshi.requests < MaxRequests
    /\ (IsGetTrades /\ call.cursor_pages_nonempty) =>
         /\ call.requests <= Max(1, call.limit)
         /\ ret.kind = "list" =>
              (call.cursor = None \/ Len(ret.trades) >= call.limit)

\* C28 witness: a call with limit 2 that returned after its second request,
\* both pages carrying a cursor and a trade.
C28_Witness ==
    /\ IsGetTrades
    /\ call.cursor_pages_nonempty
    /\ call.limit = 2
    /\ call.requests = 2
    /\ call.cursor # None
    /\ ret.kind = "list"
    /\ Len(ret.trades) >= 2

IsGetCurrentPrice == call.op = "_get_current_price"

\* int(round(x)) of x = n / 2: Python rounds a half to the even integer
RoundHalf(n) ==
    IF n % 2 = 0 THEN n \div 2
    ELSE IF ((n - 1) \div 2) % 2 = 0 THEN (n - 1) \div 2 ELSE (n + 1) \div 2

\* C29 (as claimed): _get_current_price returns the mid price
\* (yes_bid + yes_ask) / 2 rounded to an integer when the market has both
\* yes_bid and yes_ask (and no sizes), last_price when bid or ask is
\* missing, and None only when fetching the market fails.  Stated for the
\* markets that have a last_price, where it fails all the same.
C29_PriceFallbackOrder ==
    (IsGetCurrentPrice /\ call.response.ok
        /\ call.response.market.last_price # None) =>
        LET market == call.response.market
        IN  /\ IF market.yes_bid # None /\ market.yes_ask # None
               THEN ret.value = Some(RoundHalf(market.yes_bid[1] + market.yes_ask[1]))
               ELSE ret.value = market.last_price
            /\ ret.value # None

====
